---- MODULE Spec2Model ----
(***************************************************************************)
(* Model of the dataset registry of the MedGuard dashboard                 *)
(* (src/medguard_dashboard.py): MedGuardDashboard.load_data, the           *)
(* constructor that calls it, the Refresh Data button of render_sidebar    *)
(* and main, which the UI toolkit executes from the top on every           *)
(* interaction of a session; then the rendering steps of run() with the    *)
(* handler of main (RenderSpec) and the two classifications of the risk    *)
(* grid (ClassifySpec).                                                    *)
(*                                                                         *)
(* The processed/ directory is the environment: a set of files, each with  *)
(* a stem, an extension and a content that fixes what every parser of the  *)
(* program makes of it.  It changes only between two runs of the script.   *)
(***************************************************************************)
EXTENDS Naturals, Sequences, FiniteSets, TLC

\* ------------------------------------------------------------------------
\* Bounds of the model
\* ------------------------------------------------------------------------

\* largest number of files in the processed/ directory
MaxFiles == 2

\* largest number of cells of one value in a risk grid
MaxCount == 7

\* ------------------------------------------------------------------------
\* The directory and its files
\* ------------------------------------------------------------------------

\* file stems (the registry keys); two are enough for a collision on one
\* stem next to an unrelated file
Stems == {"overfishing_risk_index", "illegal_fishing_suspects"}

\* the three glob patterns of load_data, in the order of its three loops
RecognisedExts == {"nc", "geojson", "csv"}

\* one extension no glob pattern of load_data matches
OtherExts == {"txt"}

Exts == RecognisedExts \cup OtherExts

\* a file name is <<stem, extension>>; a directory holds a name at most once
Names == Stems \X Exts

Stem(n) == n[1]

Ext(n) == n[2]

\* content-derived aggregate of a readable file: the mean of a grid (in
\* tenths), the number of features or rows of a collection
Aggs == {3, 8}

\* what the parsers make of a file:
\*   "multi"      open_dataset succeeds (open_dataarray is then never called)
\*   "array_only" open_dataset raises, open_dataarray succeeds
\*   "features"   read_file succeeds
\*   "rows"       read_csv succeeds
\*   "corrupt"    every parser raises
\*   "text"       delimited text under an unrecognised extension: read_csv
\*                would read it, but no loop of load_data visits it
KindsOf(ext) ==
    CASE ext = "nc"      -> {"multi", "array_only", "corrupt"}
      [] ext = "geojson" -> {"features", "corrupt"}
      [] ext = "csv"     -> {"rows", "corrupt"}
      [] OTHER           -> {"text"}

Readable == {"multi", "array_only", "features", "rows"}

ContentsOf(ext) ==
    {[kind |-> k, agg |-> a] : k \in KindsOf(ext) \cap Readable, a \in Aggs}
      \cup {[kind |-> k, agg |-> 0] : k \in KindsOf(ext) \ Readable}

\* ------------------------------------------------------------------------
\* The registry
\* ------------------------------------------------------------------------

\* the four variants a parser returns
Variants == {"Dataset", "DataArray", "GeoDataFrame", "DataFrame"}

\* self.datasets = {}
EmptyRegistry == [k \in {} |-> [variant |-> "Dataset", agg |-> 0]]

\* the file system writes content c under name n
WriteFile(d, n, c) ==
    [m \in (DOMAIN d) \cup {n} |-> IF m = n THEN c ELSE d[m]]

\* an assignment that keeps the value a key already has
StoreFirst(reg, key, value) ==
    [k \in (DOMAIN reg) \cup {key} |->
        IF k \in DOMAIN reg THEN reg[k] ELSE value]

\* self.datasets[key] = value
Store(reg, key, value) ==
    [k \in (DOMAIN reg) \cup {key} |-> IF k = key THEN value ELSE reg[k]]

\* ------------------------------------------------------------------------
\* The parsers: each returns a value or raises
\* ------------------------------------------------------------------------

Returns(variant, c) == [ok |-> TRUE, value |-> [variant |-> variant, agg |-> c.agg]]

Raises == [ok |-> FALSE, value |-> [variant |-> "none", agg |-> 0]]

\* xr.open_dataset(nc_file)
open_dataset(c) ==
    IF c.kind = "multi" THEN Returns("Dataset", c) ELSE Raises

\* xr.open_dataarray(nc_file)
open_dataarray(c) ==
    IF c.kind = "array_only" THEN Returns("DataArray", c) ELSE Raises

\* gpd.read_file(geojson_file)
read_file(c) ==
    IF c.kind = "features" THEN Returns("GeoDataFrame", c) ELSE Raises

\* pd.read_csv(csv_file)
read_csv(c) ==
    IF c.kind \in {"rows", "text"} THEN Returns("DataFrame", c) ELSE Raises

\* one record of the parse log
Attempt(n, parser, ok) == [file |-> n, parser |-> parser, ok |-> ok]

\* ------------------------------------------------------------------------
\* State
\* ------------------------------------------------------------------------

VARIABLES
    dir_exists,    \* self.data_dir.exists()
    dir,           \* the files of processed/: name -> content
    pc,            \* position of the script: "idle", "main", "nc", "geojson", "csv", "run",
                   \* then "metrics", "tab1" .. "tab6", and "except" in the handler of main
    trigger,       \* what started the current run: "start", "slider", "checkbox", "refresh", "rerun"; "done" after it
    datasets,      \* self.datasets of the dashboard of the current (or last) run
    pending,       \* files the current glob loop has still to visit
    attempts,      \* parse calls of the current load_data, in order
    loads,         \* executions of load_data in the current run
    escaped,       \* an exception left load_data
    prev_datasets, \* history: the registry the run before the current one built
    shown,         \* what the current run has put on the page so far
    reads,         \* registry keys whose value the current run has read
    grid,          \* a risk grid handed to the two risk classifications
    assessment     \* what the two classifications made of grid

\* the variables of rendering and of the classification of a grid
render_vars == <<shown, reads, grid, assessment>>

vars == <<dir_exists, dir, pc, trigger, datasets, pending, attempts, loads,
          escaped, prev_datasets, shown, reads, grid, assessment>>

\* the csv pattern written so that it also matches .txt files
GlobLoose(ext) ==
    {n \in DOMAIN dir : Ext(n) = ext \/ (ext = "csv" /\ Ext(n) = "txt")}

\* self.data_dir.glob('*.<ext>')
Glob(ext) == {n \in DOMAIN dir : Ext(n) = ext}

\* ------------------------------------------------------------------------
\* Risk grids and the two classifications of the overfishing risk index
\* ------------------------------------------------------------------------

\* cell values of a risk grid, in tenths: one below 0.3, 0.3 itself, one
\* between 0.3 and 0.6, 0.6 itself, one above 0.6
CellValues == {2, 3, 5, 6, 8}

\* a grid is given by the number of its cells of each value
Grids == [CellValues -> 0..MaxCount]

EmptyGrid == [v \in CellValues |-> 0]

\* the grid all of whose n cells are v
Uniform(v, n) == [w \in CellValues |-> IF w = v THEN n ELSE 0]

\* thresholds of the headline class, in tenths: "mean_risk > 0.6", "> 0.3"
CriticalAbove == 6

WarningAbove == 3

\* thresholds of the breakdown, in tenths: "< 0.3", ">= 0.6"
LowBelow == 3

HighFrom == 6

\* thresholds of the status message, in percent: "high_pct > 30", "> 15"
AlertAbove == 30

WarnAbove == 15

RECURSIVE Total(_, _)
\* the sum of f[v] over the values v of the set vs
Total(f, vs) ==
    IF vs = {} THEN 0
    ELSE LET v == CHOOSE x \in vs : TRUE
         IN  f[v] + Total(f, vs \ {v})

\* risk_data.size
GridSize(g) == Total(g, CellValues)

\* the sum of the cells, in tenths
GridSum(g) == Total([v \in CellValues |-> v * g[v]], CellValues)

\* (risk_data < 0.3).sum(), ((risk_data >= 0.3) & (risk_data < 0.6)).sum(),
\* (risk_data >= 0.6).sum()
CountLow(g) == Total([v \in CellValues |-> IF v < LowBelow THEN g[v] ELSE 0], CellValues)

CountMed(g) ==
    Total([v \in CellValues |-> IF v >= LowBelow /\ v < HighFrom THEN g[v] ELSE 0],
          CellValues)

CountHigh(g) == Total([v \in CellValues |-> IF v >= HighFrom THEN g[v] ELSE 0], CellValues)

\* "CRITICAL" if mean_risk > 0.6 else "WARNING" if mean_risk > 0.3 else
\* "SAFE", for the mean sum / n in tenths; the mean of no cell is NaN, which
\* is above nothing
risk_class(sum, n) ==
    IF n > 0 /\ sum > CriticalAbove * n THEN "CRITICAL"
    ELSE IF n > 0 /\ sum > WarningAbove * n THEN "WARNING"
    ELSE "SAFE"

\* a status chain that tests the lower threshold first
risk_status_swapped(high, size) ==
    IF size > 0 /\ high * 100 > WarnAbove * size THEN "warning"
    ELSE IF size > 0 /\ high * 100 > AlertAbove * size THEN "error"
    ELSE "success"

\* st.error if high_pct > 30, st.warning elif high_pct > 15, else
\* st.success, for high_pct = high / size * 100 (NaN when size is 0)
risk_status(high, size) ==
    IF size > 0 /\ high * 100 > AlertAbove * size THEN "error"
    ELSE IF size > 0 /\ high * 100 > WarnAbove * size THEN "warning"
    ELSE "success"

\* nothing classified yet
NoAssessment ==
    [risk_class |-> "none", low |-> 0, med |-> 0, high |-> 0, size |-> 0,
     status |-> "none"]

Init ==
    /\ shown = {}
    /\ reads = {}
    /\ grid = EmptyGrid
    /\ assessment = NoAssessment
    /\ dir_exists \in BOOLEAN
    /\ dir = [n \in {} |-> [kind |-> "text", agg |-> 0]]
    /\ pc = "idle"
    /\ trigger = "none"
    /\ datasets = EmptyRegistry
    /\ pending = {}
    /\ attempts = <<>>
    /\ loads = 0
    /\ escaped = FALSE
    /\ prev_datasets = EmptyRegistry


\* ------------------------------------------------------------------------
\* The environment: processed/ changes while no run of the script is active
\* ------------------------------------------------------------------------

\* a file is written (created or overwritten)
PutFile ==
    /\ pc = "idle"
    /\ dir_exists
    /\ \E n \in Names : \E c \in ContentsOf(Ext(n)) :
         /\ n \in DOMAIN dir \/ Cardinality(DOMAIN dir) < MaxFiles
         /\ n \in DOMAIN dir => dir[n] # c
         /\ dir' = WriteFile(dir, n, c)
    /\ UNCHANGED <<dir_exists, pc, trigger, datasets, pending, attempts, loads,
                   escaped, prev_datasets>>
    /\ UNCHANGED render_vars

\* a file is deleted
RemoveFile ==
    /\ pc = "idle"
    /\ \E n \in DOMAIN dir : dir' = [m \in (DOMAIN dir) \ {n} |-> dir[m]]
    /\ UNCHANGED <<dir_exists, pc, trigger, datasets, pending, attempts, loads,
                   escaped, prev_datasets>>
    /\ UNCHANGED render_vars

\* the whole directory is deleted
RemoveDir ==
    /\ pc = "idle"
    /\ dir_exists
    /\ dir_exists' = FALSE
    /\ dir' = [n \in {} |-> [kind |-> "text", agg |-> 0]]
    /\ UNCHANGED <<pc, trigger, datasets, pending, attempts, loads, escaped,
                   prev_datasets>>
    /\ UNCHANGED render_vars

\* the directory is created, empty
CreateDir ==
    /\ pc = "idle"
    /\ ~dir_exists
    /\ dir_exists' = TRUE
    /\ UNCHANGED <<dir, pc, trigger, datasets, pending, attempts, loads, escaped,
                   prev_datasets>>
    /\ UNCHANGED render_vars

\* ------------------------------------------------------------------------
\* The session: the toolkit runs the script from the top on every interaction
\* ------------------------------------------------------------------------

\* the widgets of render_sidebar whose change re-runs the script
Widgets == {"slider", "checkbox", "refresh"}

\* the page is opened, or the user changes a widget or presses Refresh Data
Interact ==
    /\ pc = "idle"
    /\ \/ trigger = "none" /\ trigger' = "start"
       \/ trigger # "none" /\ trigger' \in Widgets
    /\ pc' = "main"
    /\ loads' = 0
    /\ escaped' = FALSE
    /\ UNCHANGED <<dir_exists, dir, datasets, pending, attempts, prev_datasets>>
    /\ UNCHANGED render_vars

\* a constructor that takes the registry from a cache which only the Refresh
\* Data button invalidates: a run started by a slider or a checkbox does not
\* call load_data
ConstructCached ==
    /\ pc = "main"
    /\ IF trigger \in {"slider", "checkbox"}
         THEN /\ loads' = loads
              /\ datasets' = datasets
              /\ pc' = "run" /\ pending' = {}
         ELSE /\ loads' = loads + 1
              /\ datasets' = EmptyRegistry
              /\ IF dir_exists
                   THEN pc' = "nc" /\ pending' = Glob("nc")
                   ELSE pc' = "run" /\ pending' = {}
    /\ attempts' = <<>>
    /\ prev_datasets' = datasets
    /\ UNCHANGED <<dir_exists, dir, trigger, escaped>>
    /\ UNCHANGED render_vars

\* a load_data without "self.datasets = {}" on a registry that outlives the
\* run: the entries of the previous run stay
ConstructKeep ==
    /\ pc = "main"
    /\ loads' = loads + 1
    /\ datasets' = datasets
    /\ attempts' = <<>>
    /\ IF dir_exists
         THEN pc' = "nc" /\ pending' = Glob("nc")
         ELSE pc' = "run" /\ pending' = {}
    /\ prev_datasets' = datasets
    /\ UNCHANGED <<dir_exists, dir, trigger, escaped>>
    /\ UNCHANGED render_vars

\* a load_data without the exists() test that lists the directory with a
\* call that raises on a missing directory
ConstructListdir ==
    /\ pc = "main"
    /\ loads' = loads + 1
    /\ datasets' = EmptyRegistry
    /\ attempts' = <<>>
    /\ IF dir_exists
         THEN pc' = "nc" /\ pending' = Glob("nc") /\ escaped' = escaped
         ELSE pc' = "idle" /\ pending' = {} /\ escaped' = TRUE
    /\ prev_datasets' = datasets
    /\ UNCHANGED <<dir_exists, dir, trigger>>
    /\ UNCHANGED render_vars

\* main: dashboard = MedGuardDashboard(); __init__ sets data_dir and calls
\* load_data, which starts from an empty registry and enters the first loop
\* only when the directory exists
Construct ==
    /\ pc = "main"
    /\ loads' = loads + 1
    /\ datasets' = EmptyRegistry
    /\ attempts' = <<>>
    /\ IF dir_exists
         THEN pc' = "nc" /\ pending' = Glob("nc")
         ELSE pc' = "run" /\ pending' = {}
    /\ prev_datasets' = datasets
    /\ UNCHANGED <<dir_exists, dir, trigger, escaped>>
    /\ UNCHANGED render_vars

\* the .nc loop body without the inner try: one parse attempt only
load_nc_no_fallback(reg, n, c) ==
    LET r1 == open_dataset(c)
    IN  IF r1.ok
          THEN [reg |-> Store(reg, Stem(n), r1.value),
                log |-> <<Attempt(n, "open_dataset", TRUE)>>,
                raised |-> FALSE]
          ELSE [reg |-> reg,
                log |-> <<Attempt(n, "open_dataset", FALSE)>>,
                raised |-> FALSE]

\* body of "for nc_file in self.data_dir.glob('*.nc')" for one file
load_nc(reg, n, c) ==
    LET r1 == open_dataset(c)
        r2 == open_dataarray(c)
    IN  IF r1.ok
          THEN [reg |-> Store(reg, Stem(n), r1.value),
                log |-> <<Attempt(n, "open_dataset", TRUE)>>,
                raised |-> FALSE]
          ELSE IF r2.ok
                 THEN [reg |-> Store(reg, Stem(n), r2.value),
                       log |-> <<Attempt(n, "open_dataset", FALSE),
                                 Attempt(n, "open_dataarray", TRUE)>>,
                       raised |-> FALSE]
                 ELSE [reg |-> reg,
                       log |-> <<Attempt(n, "open_dataset", FALSE),
                                 Attempt(n, "open_dataarray", FALSE)>>,
                       raised |-> FALSE]

\* the .geojson loop body without try/except: the parse error propagates
load_geojson_unguarded(reg, n, c) ==
    LET r == read_file(c)
    IN  IF r.ok
          THEN [reg |-> Store(reg, Stem(n), r.value),
                log |-> <<Attempt(n, "read_file", TRUE)>>,
                raised |-> FALSE]
          ELSE [reg |-> reg,
                log |-> <<Attempt(n, "read_file", FALSE)>>,
                raised |-> TRUE]

\* the .geojson loop body with an except clause that drops the stem's entry
load_geojson_pop(reg, n, c) ==
    LET r == read_file(c)
    IN  IF r.ok
          THEN [reg |-> Store(reg, Stem(n), r.value),
                log |-> <<Attempt(n, "read_file", TRUE)>>,
                raised |-> FALSE]
          ELSE [reg |-> [k \in (DOMAIN reg) \ {Stem(n)} |-> reg[k]],
                log |-> <<Attempt(n, "read_file", FALSE)>>,
                raised |-> FALSE]

\* body of "for geojson_file in self.data_dir.glob('*.geojson')" for one file
load_geojson(reg, n, c) ==
    LET r == read_file(c)
    IN  IF r.ok
          THEN [reg |-> Store(reg, Stem(n), r.value),
                log |-> <<Attempt(n, "read_file", TRUE)>>,
                raised |-> FALSE]
          ELSE [reg |-> reg,
                log |-> <<Attempt(n, "read_file", FALSE)>>,
                raised |-> FALSE]

\* the .csv loop body with an except clause that stores None under the stem
load_csv_placeholder(reg, n, c) ==
    LET r == read_csv(c)
    IN  IF r.ok
          THEN [reg |-> Store(reg, Stem(n), r.value),
                log |-> <<Attempt(n, "read_csv", TRUE)>>,
                raised |-> FALSE]
          ELSE [reg |-> Store(reg, Stem(n), [variant |-> "None", agg |-> 0]),
                log |-> <<Attempt(n, "read_csv", FALSE)>>,
                raised |-> FALSE]

\* the .csv loop body with an except clause that empties the registry
load_csv_reset(reg, n, c) ==
    LET r == read_csv(c)
    IN  IF r.ok
          THEN [reg |-> Store(reg, Stem(n), r.value),
                log |-> <<Attempt(n, "read_csv", TRUE)>>,
                raised |-> FALSE]
          ELSE [reg |-> EmptyRegistry,
                log |-> <<Attempt(n, "read_csv", FALSE)>>,
                raised |-> FALSE]

\* body of "for csv_file in self.data_dir.glob('*.csv')" for one file
load_csv(reg, n, c) ==
    LET r == read_csv(c)
    IN  IF r.ok
          THEN [reg |-> Store(reg, Stem(n), r.value),
                log |-> <<Attempt(n, "read_csv", TRUE)>>,
                raised |-> FALSE]
          ELSE [reg |-> reg,
                log |-> <<Attempt(n, "read_csv", FALSE)>>,
                raised |-> FALSE]

\* one iteration of a loop of load_data; the listing order of glob is not
\* specified, so any pending file may come next.  An exception that leaves
\* the loop body would leave load_data and the constructor and end the run
\* in the handler of main.
Iterate(out, n) ==
    /\ datasets' = out.reg
    /\ attempts' = attempts \o out.log
    /\ escaped' = out.raised
    /\ IF out.raised
         THEN pc' = "idle" /\ pending' = {}
         ELSE pc' = pc /\ pending' = pending \ {n}
    /\ UNCHANGED <<dir_exists, dir, trigger, loads, prev_datasets>>
    /\ UNCHANGED render_vars

LoadNcFile ==
    /\ pc = "nc"
    /\ \E n \in pending : Iterate(load_nc(datasets, n, dir[n]), n)

LoadGeojsonFile ==
    /\ pc = "geojson"
    /\ \E n \in pending : Iterate(load_geojson(datasets, n, dir[n]), n)

LoadCsvFile ==
    /\ pc = "csv"
    /\ \E n \in pending : Iterate(load_csv(datasets, n, dir[n]), n)

\* the .nc loop is exhausted: the .geojson loop starts
EndNcLoop ==
    /\ pc = "nc" /\ pending = {}
    /\ pc' = "geojson"
    /\ pending' = Glob("geojson")
    /\ UNCHANGED <<dir_exists, dir, trigger, datasets, attempts, loads, escaped,
                   prev_datasets>>
    /\ UNCHANGED render_vars

\* the .geojson loop is exhausted: the .csv loop starts
EndGeojsonLoop ==
    /\ pc = "geojson" /\ pending = {}
    /\ pc' = "csv"
    /\ pending' = Glob("csv")
    /\ UNCHANGED <<dir_exists, dir, trigger, datasets, attempts, loads, escaped,
                   prev_datasets>>
    /\ UNCHANGED render_vars

\* the .csv loop is exhausted: load_data and the constructor return
EndCsvLoop ==
    /\ pc = "csv" /\ pending = {}
    /\ pc' = "run"
    /\ UNCHANGED <<dir_exists, dir, trigger, datasets, pending, attempts, loads,
                   escaped, prev_datasets>>
    /\ UNCHANGED render_vars

\* dashboard.run() up to the Refresh Data button of render_sidebar: the
\* button is true only in the run its click started; st.cache_data.clear()
\* empties a cache no function of the program writes to, and st.rerun()
\* abandons this run and starts the script again from the top
RunRefresh ==
    /\ pc = "run"
    /\ trigger = "refresh"
    /\ pc' = "main"
    /\ trigger' = "rerun"
    /\ loads' = 0
    /\ UNCHANGED <<dir_exists, dir, datasets, pending, attempts, escaped,
                   prev_datasets>>
    /\ UNCHANGED render_vars

\* dashboard.run() when the button was not pressed: the page is rendered from
\* the registry and the script ends
RunRender ==
    /\ pc = "run"
    /\ trigger # "refresh"
    /\ pc' = "idle"
    /\ trigger' = "done"
    /\ prev_datasets' = EmptyRegistry
    /\ attempts' = <<>>
    /\ UNCHANGED <<dir_exists, dir, datasets, pending, loads, escaped>>
    /\ UNCHANGED render_vars

Next ==
    \/ PutFile
    \/ RemoveFile
    \/ RemoveDir
    \/ CreateDir
    \/ Interact
    \/ Construct
    \/ LoadNcFile
    \/ EndNcLoop
    \/ LoadGeojsonFile
    \/ EndGeojsonLoop
    \/ LoadCsvFile
    \/ EndCsvLoop
    \/ RunRefresh
    \/ RunRender

Spec == Init /\ [][Next]_vars

TypeOK ==
    /\ dir_exists \in BOOLEAN
    /\ DOMAIN dir \subseteq Names
    /\ Cardinality(DOMAIN dir) <= MaxFiles
    /\ \A n \in DOMAIN dir : dir[n] \in ContentsOf(Ext(n))
    /\ ~dir_exists => DOMAIN dir = {}
    /\ pc \in {"idle", "main", "nc", "geojson", "csv", "run"}
    /\ DOMAIN datasets \subseteq Stems
    /\ pending \subseteq DOMAIN dir
    /\ loads \in 0..1

\* ------------------------------------------------------------------------
\* Vocabulary of the properties
\* ------------------------------------------------------------------------

\* load_data has returned and run() has not started
Loaded == pc = "run"

Recognised(n) == Ext(n) \in RecognisedExts

\* what the parsers the program applies to a file of this extension return
Outcome(n) ==
    CASE Ext(n) = "nc"      -> IF open_dataset(dir[n]).ok
                                 THEN open_dataset(dir[n])
                                 ELSE open_dataarray(dir[n])
      [] Ext(n) = "geojson" -> read_file(dir[n])
      [] Ext(n) = "csv"     -> read_csv(dir[n])
      [] OTHER              -> Raises

\* a file of the directory with a recognised extension that some parser reads
Loadable(n) == n \in DOMAIN dir /\ Recognised(n) /\ Outcome(n).ok

\* a file of the directory with a recognised extension that no parser reads
Corrupted(n) == n \in DOMAIN dir /\ Recognised(n) /\ ~Outcome(n).ok

\* the parse calls of the current load_data on file n, in order
AttemptsOn(n) ==
    LET OnFile(a) == a.file = n
    IN  SelectSeq(attempts, OnFile)

FailedAttempt(parsers) ==
    \E i \in 1..Len(attempts) : attempts[i].parser \in parsers /\ ~attempts[i].ok

\* ------------------------------------------------------------------------
\* C1
\* ------------------------------------------------------------------------

\* C1: when load_data has returned, the keys of the registry are exactly the
\* stems of the files with a recognised extension that a parser read; a file
\* of another extension adds nothing and a file that fails does not keep
\* another file out.
C1_KeysAreLoadableStems ==
    Loaded => DOMAIN datasets = {Stem(n) : n \in {m \in DOMAIN dir : Loadable(m)}}

\* a corrupted file and a loadable file of another stem: only the latter is in
C1_Witness ==
    /\ Loaded
    /\ \E n, m \in DOMAIN dir :
         /\ Corrupted(n) /\ Loadable(m) /\ Stem(n) # Stem(m)
         /\ DOMAIN datasets = {Stem(m)}

\* ------------------------------------------------------------------------
\* C2
\* ------------------------------------------------------------------------

\* C2 as stated: after load_data the registry has no entry for the stem of
\* any corrupted file, whatever else the directory holds, and no exception
\* leaves load_data.
C2_Original ==
    /\ ~escaped
    /\ Loaded => \A n \in DOMAIN dir : Corrupted(n) => Stem(n) \notin DOMAIN datasets

\* C2 (amended): no exception leaves load_data, and a corrupted file adds no
\* entry of its own: after load_data its stem is a key only when another
\* file of the same stem was read, and the value is then that file's.
C2_CorruptFileAddsNothing ==
    /\ ~escaped
    /\ Loaded =>
         \A n \in DOMAIN dir :
            (Corrupted(n) /\ Stem(n) \in DOMAIN datasets) =>
               \E m \in DOMAIN dir :
                  /\ m # n /\ Stem(m) = Stem(n) /\ Loadable(m)
                  /\ datasets[Stem(n)] = Outcome(m).value

\* a corrupted file was tried and skipped, and its stem is a key all the
\* same, with the value of the readable file that shares the stem
C2_Witness ==
    /\ Loaded
    /\ ~escaped
    /\ \E n, m \in DOMAIN dir :
         /\ Corrupted(n) /\ Loadable(m) /\ Stem(m) = Stem(n)
         /\ Len(AttemptsOn(n)) >= 1
         /\ Stem(n) \in DOMAIN datasets
         /\ datasets[Stem(n)] = Outcome(m).value

\* ------------------------------------------------------------------------
\* C3
\* ------------------------------------------------------------------------

\* C3: while the data directory does not exist, load_data raises nothing,
\* enters no loop and calls no parser, and returns an empty registry.
C3_MissingDirGivesEmptyRegistry ==
    ~dir_exists =>
       /\ ~escaped
       /\ pc \notin {"nc", "geojson", "csv"}
       /\ Loaded => (datasets = EmptyRegistry /\ attempts = <<>>)

\* the directory was deleted after a run that had loaded entries
C3_Witness ==
    /\ Loaded
    /\ ~dir_exists
    /\ prev_datasets # EmptyRegistry
    /\ datasets = EmptyRegistry

\* ------------------------------------------------------------------------
\* C4
\* ------------------------------------------------------------------------

\* C4: in the .nc loop every visited file got open_dataset first and
\* open_dataarray only after open_dataset failed; its stem holds the Dataset
\* when the first call succeeded, the DataArray when only the second did, and
\* nothing when both failed; no exception leaves the loop.
C4_NcFallback ==
    /\ ~escaped
    /\ pc = "nc" =>
         \A n \in Glob("nc") \ pending :
            LET log == AttemptsOn(n)
                key == Stem(n)
            IN  CASE dir[n].kind = "multi" ->
                       /\ log = <<Attempt(n, "open_dataset", TRUE)>>
                       /\ key \in DOMAIN datasets
                       /\ datasets[key] = [variant |-> "Dataset", agg |-> dir[n].agg]
                  [] dir[n].kind = "array_only" ->
                       /\ log = <<Attempt(n, "open_dataset", FALSE),
                                  Attempt(n, "open_dataarray", TRUE)>>
                       /\ key \in DOMAIN datasets
                       /\ datasets[key] = [variant |-> "DataArray", agg |-> dir[n].agg]
                  [] OTHER ->
                       /\ log = <<Attempt(n, "open_dataset", FALSE),
                                  Attempt(n, "open_dataarray", FALSE)>>
                       /\ key \notin DOMAIN datasets

\* the loop has visited a file only open_dataarray reads and a file neither reads
C4_Witness ==
    /\ pc = "nc"
    /\ pending = {}
    /\ \E n, m \in Glob("nc") :
         /\ dir[n].kind = "array_only"
         /\ dir[m].kind = "corrupt"
         /\ datasets[Stem(n)].variant = "DataArray"
         /\ Stem(m) \notin DOMAIN datasets

\* ------------------------------------------------------------------------
\* C5
\* ------------------------------------------------------------------------

\* an iteration of the .geojson loop or of the .csv loop
VectorOrTableStep ==
    /\ pc \in {"geojson", "csv"}
    /\ pc' = pc
    /\ pending' # pending

\* C5: an iteration of the .geojson loop (of the .csv loop) makes exactly
\* one parse call, read_file (read_csv), on the file it visits; when the call
\* succeeds the file's stem maps to a GeoDataFrame (a DataFrame) and no other
\* key changes; when it fails the registry stays exactly as it was and no
\* exception leaves the loop.
C5_OneAttemptOrSkip ==
    [][VectorOrTableStep =>
         LET n    == CHOOSE m \in pending : m \notin pending'
             last == attempts'[Len(attempts')]
         IN  /\ pending' = pending \ {n}
             /\ Len(attempts') = Len(attempts) + 1
             /\ SubSeq(attempts', 1, Len(attempts)) = attempts
             /\ last.file = n
             /\ last.parser = IF pc = "geojson" THEN "read_file" ELSE "read_csv"
             /\ ~escaped'
             /\ IF last.ok
                  THEN /\ DOMAIN datasets' = (DOMAIN datasets) \cup {Stem(n)}
                       /\ datasets'[Stem(n)] =
                            [variant |-> IF pc = "geojson" THEN "GeoDataFrame"
                                                           ELSE "DataFrame",
                             agg |-> dir[n].agg]
                       /\ \A k \in (DOMAIN datasets) \ {Stem(n)} :
                             datasets'[k] = datasets[k]
                  ELSE datasets' = datasets]_vars

\* a .csv file failed after earlier files had put entries in the registry,
\* one of them under the same stem
C5_Witness ==
    /\ pc = "csv"
    /\ pending = {}
    /\ FailedAttempt({"read_csv"})
    /\ \E n \in Glob("csv") : Corrupted(n) /\ Stem(n) \in DOMAIN datasets

\* ------------------------------------------------------------------------
\* C6
\* ------------------------------------------------------------------------

\* the recognised files of the directory with stem k
FilesOf(k) == {n \in DOMAIN dir : Stem(n) = k /\ Recognised(n)}

\* the loadable file of stem k whose loop runs last: .csv, else .geojson,
\* else .nc
Winner(k) ==
    IF Loadable(<<k, "csv">>) THEN <<k, "csv">>
    ELSE IF Loadable(<<k, "geojson">>) THEN <<k, "geojson">>
    ELSE <<k, "nc">>

\* C6: when two or more recognised files share a stem and at least one of
\* them is read, the registry has the stem once, with the value of the file
\* read last in the order .nc loop, .geojson loop, .csv loop.
C6_LastGroupWins ==
    Loaded =>
       \A k \in Stems :
          (Cardinality(FilesOf(k)) >= 2 /\ \E n \in FilesOf(k) : Loadable(n)) =>
             /\ k \in DOMAIN datasets
             /\ datasets[k] = Outcome(Winner(k)).value

\* a stem with a readable .nc and a readable .geojson holds the GeoDataFrame
C6_Witness ==
    /\ Loaded
    /\ \E k \in Stems :
         /\ Loadable(<<k, "nc">>)
         /\ Loadable(<<k, "geojson">>)
         /\ k \in DOMAIN datasets
         /\ datasets[k].variant = "GeoDataFrame"

\* ------------------------------------------------------------------------
\* C7
\* ------------------------------------------------------------------------

\* C7: in every state, during load_data and after it, every value of the
\* registry is a value of one of the four variants.
C7_ValuesAreVariants ==
    \A k \in DOMAIN datasets : datasets[k].variant \in Variants

\* load_data is still running, a file has failed every parser of its loop,
\* and the registry holds the entry of another file
C7_Witness ==
    /\ pc \in {"nc", "geojson", "csv"}
    /\ FailedAttempt({"open_dataarray", "read_file", "read_csv"})
    /\ datasets # EmptyRegistry
    /\ \A k \in DOMAIN datasets : datasets[k].variant \in Variants

\* ------------------------------------------------------------------------
\* C8
\* ------------------------------------------------------------------------

\* C8: the run st.rerun() starts loads the directory the run before it
\* loaded, unchanged; its registry has the same keys and, under each key,
\* the same variant and the same aggregate, whatever the order in which the
\* two runs listed the files.
C8_ReloadGivesSameRegistry ==
    (Loaded /\ trigger = "rerun") =>
       /\ DOMAIN datasets = DOMAIN prev_datasets
       /\ \A k \in DOMAIN datasets :
             /\ datasets[k].variant = prev_datasets[k].variant
             /\ datasets[k].agg = prev_datasets[k].agg

\* the second load of a directory with a readable and a corrupted file
C8_Witness ==
    /\ Loaded
    /\ trigger = "rerun"
    /\ datasets # EmptyRegistry
    /\ \E n \in DOMAIN dir : Corrupted(n)

\* ------------------------------------------------------------------------
\* C9
\* ------------------------------------------------------------------------

\* C9 as stated: a run started by a slider or a checkbox has not executed
\* load_data when the constructor returns, and a run started by the Refresh
\* Data button has.
C9_Original ==
    Loaded =>
       /\ trigger \in {"slider", "checkbox"} => loads = 0
       /\ trigger \in {"refresh", "rerun"} => loads = 1

\* C9 (amended): every run of the script executes load_data exactly once,
\* whatever started it: the opening of the page, a slider, a checkbox, the
\* Refresh Data button or st.rerun().
C9_EveryRunLoads ==
    /\ Loaded => loads = 1
    /\ pc \in {"nc", "geojson", "csv"} => loads = 1

\* a run a slider started has rebuilt the registry from files
C9_Witness ==
    /\ Loaded
    /\ trigger = "slider"
    /\ loads = 1
    /\ Len(attempts) >= 1
    /\ datasets # EmptyRegistry

\* ------------------------------------------------------------------------
\* C10
\* ------------------------------------------------------------------------

\* some file of stem k is read by the loader
Live(k) == \E n \in FilesOf(k) : Loadable(n)

\* C10: in the run the Refresh Data button starts and in the run its
\* st.rerun() starts, the registry holds no key of the previous run whose
\* files are gone or unreadable, holds every stem that is readable now, and
\* every value comes from a file of the directory as it is now.
C10_RefreshRebuilds ==
    (Loaded /\ trigger \in {"refresh", "rerun"}) =>
       \A k \in Stems :
          /\ (k \in DOMAIN prev_datasets /\ ~Live(k)) => k \notin DOMAIN datasets
          /\ Live(k) => k \in DOMAIN datasets
          /\ k \in DOMAIN datasets =>
                \E n \in FilesOf(k) : Loadable(n) /\ datasets[k] = Outcome(n).value

\* between the previous run and the refresh one stem lost its readable file
\* and the other got one
C10_Witness ==
    /\ Loaded
    /\ trigger = "refresh"
    /\ \E k \in DOMAIN prev_datasets : k \notin DOMAIN datasets
    /\ \E k \in DOMAIN datasets : k \notin DOMAIN prev_datasets

\* ------------------------------------------------------------------------
\* Rendering: run() and the functions it calls, one step after the other
\* ------------------------------------------------------------------------

\* the six keys the rendering functions look up
RenderStems ==
    {"overfishing_risk_index", "habitat_quality_index", "larval_connectivity",
     "illegal_fishing_suspects", "recommended_mpa_locations",
     "socioeconomic_scenarios"}

RenderNames == RenderStems \X RecognisedExts

\* the contents of a file: grids of mean 0.3 and 0.8, collections of three
\* features, tables of three rows and of a header line with no row, and
\* files no parser reads
RenderContentsOf(ext) ==
    CASE ext = "nc" ->
           {[kind |-> "multi", agg |-> 8], [kind |-> "array_only", agg |-> 3],
            [kind |-> "array_only", agg |-> 8], [kind |-> "corrupt", agg |-> 0]}
      [] ext = "geojson" ->
           {[kind |-> "features", agg |-> 3], [kind |-> "corrupt", agg |-> 0]}
      [] OTHER ->
           {[kind |-> "rows", agg |-> 0], [kind |-> "rows", agg |-> 3],
            [kind |-> "corrupt", agg |-> 0]}

\* the directories of at most MaxFiles files under the six stems
RenderDirs ==
    UNION {{d \in [S -> UNION {RenderContentsOf(e) : e \in RecognisedExts}] :
               \A n \in S : d[n] \in RenderContentsOf(Ext(n))} :
           S \in {T \in SUBSET RenderNames : Cardinality(T) <= MaxFiles}}

\* one element put on the page
Elem(el, text, num) == [el |-> el, text |-> text, num |-> num]

\* what a piece of rendering code does: the elements it shows, the registry
\* keys whose value it reads, and whether it raises
Step(out, rd, raised) == [out |-> out, reads |-> rd, raised |-> raised]

\* a then b: b runs only when a has not raised
Then(a, b) ==
    IF a.raised THEN a
    ELSE Step(a.out \cup b.out, a.reads \cup b.reads, b.raised)

\* 'key' in self.datasets
Present(key) == key \in DOMAIN datasets

\* len(value): the rows of a table or the features of a collection; of a
\* gridded value the number of its variables or the length of its first
\* dimension, here 1
len(value) ==
    IF value.variant \in {"GeoDataFrame", "DataFrame"} THEN value.agg ELSE 1

\* the operations on a gridded value that only a DataArray supports:
\* float(x.mean()), x.size, x.to_dataframe(name=...)
IsArray(value) == value.variant = "DataArray"

\* column access by name and .iterrows() / .style: a DataFrame, or a
\* GeoDataFrame, which is one
IsTable(value) == value.variant \in {"GeoDataFrame", "DataFrame"}

\* a column that reads its value without asking for the key first: KeyError
\* when the key is absent
mean_column_unguarded(key, card, placeholder) ==
    IF Present(key) /\ IsArray(datasets[key])
      THEN Step({Elem(card, "mean", datasets[key].agg)}, {key}, FALSE)
      ELSE Step({}, {key}, TRUE)

\* render_key_metrics, columns 2 and 3: the card with float(value.mean()),
\* or the "N/A" metric when the key is absent
mean_column(key, card, placeholder) ==
    IF Present(key)
      THEN IF IsArray(datasets[key])
             THEN Step({Elem(card, "mean", datasets[key].agg)}, {key}, FALSE)
             ELSE Step({}, {key}, TRUE)
      ELSE Step({Elem(placeholder, "N/A", 0)}, {}, FALSE)

\* render_key_metrics, column 1: the card with the mean and its class, or
\* the "Loading..." metric
risk_column ==
    IF Present("overfishing_risk_index")
      THEN LET risk_data == datasets["overfishing_risk_index"]
           IN  IF IsArray(risk_data)
                 THEN Step({Elem("risk_card", risk_class(risk_data.agg, 1), risk_data.agg)},
                           {"overfishing_risk_index"}, FALSE)
                 ELSE Step({}, {"overfishing_risk_index"}, TRUE)
      ELSE Step({Elem("risk_metric", "Loading...", 0)}, {}, FALSE)

\* render_key_metrics, column 4: the alert card with len of the value, or
\* the "0 / ALL CLEAR" card
alert_column ==
    IF Present("illegal_fishing_suspects")
      THEN Step({Elem("alert_card", "VESSELS FLAGGED",
                      len(datasets["illegal_fishing_suspects"]))},
                {"illegal_fishing_suspects"}, FALSE)
      ELSE Step({Elem("alert_card", "ALL CLEAR", 0)}, {}, FALSE)

render_key_metrics ==
    Then(risk_column,
    Then(mean_column("habitat_quality_index", "habitat_card", "habitat_metric"),
    Then(mean_column("larval_connectivity", "connectivity_card", "connectivity_metric"),
         alert_column)))

\* create_risk_map_3d, create_connectivity_network and
\* create_habitat_quality_animation with the st.plotly_chart / st.info of
\* their caller: None when the key is absent, else a figure made through
\* to_dataframe(name=...)
grid_figure(key, figure, info) ==
    IF Present(key)
      THEN IF IsArray(datasets[key])
             THEN Step({Elem(figure, "figure", 0)}, {key}, FALSE)
             ELSE Step({}, {key}, TRUE)
      ELSE Step({Elem(info, "info", 0)}, {}, FALSE)

\* the breakdown of the first tab: the three shares and the status message
\* for a key that is present, nothing for one that is absent; a file of
\* mean a is taken as a grid whose cells are all a
risk_breakdown ==
    IF Present("overfishing_risk_index")
      THEN LET risk_data == datasets["overfishing_risk_index"]
               g == Uniform(risk_data.agg, 1)
           IN  IF IsArray(risk_data)
                 THEN Step({Elem("risk_status", risk_status(CountHigh(g), GridSize(g)),
                                 CountHigh(g))},
                           {"overfishing_risk_index"}, FALSE)
                 ELSE Step({}, {"overfishing_risk_index"}, TRUE)
      ELSE Step({}, {}, FALSE)

tab1 ==
    Then(grid_figure("overfishing_risk_index", "risk_map", "risk_info"),
         risk_breakdown)

tab2 ==
    Then(grid_figure("larval_connectivity", "connectivity_map", "connectivity_info"),
         grid_figure("habitat_quality_index", "habitat_map", "habitat_info"))

\* the third tab: the warning with len(suspects), then the table of five
\* named columns; the All Clear message when the key is absent
tab3 ==
    IF Present("illegal_fishing_suspects")
      THEN LET suspects == datasets["illegal_fishing_suspects"]
           IN  Then(Step({Elem("suspects_warning", "clusters detected", len(suspects))},
                         {"illegal_fishing_suspects"}, FALSE),
                    IF IsTable(suspects)
                      THEN Step({Elem("suspects_table", "table", len(suspects))}, {}, FALSE)
                      ELSE Step({}, {}, TRUE))
      ELSE Step({Elem("suspects_clear", "All Clear", 0)}, {}, FALSE)

\* create_mpa_optimization_map and the fourth tab: recommended.iterrows()
\* with row.geometry for every row
tab4 ==
    IF Present("recommended_mpa_locations")
      THEN LET recommended == datasets["recommended_mpa_locations"]
           IN  IF \/ recommended.variant = "GeoDataFrame"
                  \/ recommended.variant = "DataFrame" /\ recommended.agg = 0
                 THEN Step({Elem("mpa_map", "map", len(recommended))},
                           {"recommended_mpa_locations"}, FALSE)
                 ELSE Step({}, {"recommended_mpa_locations"}, TRUE)
      ELSE Step({Elem("mpa_info", "info", 0)}, {}, FALSE)

\* create_socioeconomic_impact_chart and the fifth tab: columns by name
tab5 ==
    IF Present("socioeconomic_scenarios")
      THEN IF IsTable(datasets["socioeconomic_scenarios"])
             THEN Step({Elem("impact_chart", "figure", 0)},
                       {"socioeconomic_scenarios"}, FALSE)
             ELSE Step({}, {"socioeconomic_scenarios"}, TRUE)
      ELSE Step({Elem("impact_info", "info", 0)}, {}, FALSE)

\* the sixth tab: one line per entry of the registry, whatever its variant,
\* or the warning that there is no data; then the footer
tab6 ==
    IF datasets # EmptyRegistry
      THEN Step({Elem("datasets_table", "table", Cardinality(DOMAIN datasets))},
                DOMAIN datasets, FALSE)
      ELSE Step({Elem("no_data_warning", "No processed data found", 0)}, {}, FALSE)

\* render_header and render_sidebar when the Refresh Data button is not
\* pressed: the page of the run starts with the header and the controls
RunSidebar ==
    /\ pc = "run"
    /\ trigger # "refresh"
    /\ shown' = {Elem("header", "MedGuard 2.0", 0), Elem("sidebar", "Control Panel", 0)}
    /\ reads' = {}
    /\ pc' = "metrics"
    /\ UNCHANGED <<dir_exists, dir, trigger, datasets, pending, attempts, loads,
                   escaped, prev_datasets, grid, assessment>>

\* a rendering step that takes the entries it reads out of the registry
RenderConsuming(at, step, next) ==
    /\ pc = at
    /\ shown' = shown \cup step.out
    /\ reads' = reads \cup step.reads
    /\ datasets' = [k \in (DOMAIN datasets) \ step.reads |-> datasets[k]]
    /\ pc' = IF step.raised THEN "except" ELSE next
    /\ IF pc' = "idle"
         THEN trigger' = "done" /\ prev_datasets' = EmptyRegistry /\ attempts' = <<>>
         ELSE UNCHANGED <<trigger, prev_datasets, attempts>>
    /\ UNCHANGED <<dir_exists, dir, pending, loads, escaped, grid, assessment>>

\* one step of run(): what it shows is added to the page; an exception it
\* raises leaves run() for the handler of main, else the next step follows
\* and the run ends after the last one
Render(at, step, next) ==
    /\ pc = at
    /\ shown' = shown \cup step.out
    /\ reads' = reads \cup step.reads
    /\ datasets' = datasets
    /\ pc' = IF step.raised THEN "except" ELSE next
    /\ IF pc' = "idle"
         THEN trigger' = "done" /\ prev_datasets' = EmptyRegistry /\ attempts' = <<>>
         ELSE UNCHANGED <<trigger, prev_datasets, attempts>>
    /\ UNCHANGED <<dir_exists, dir, pending, loads, escaped, grid, assessment>>

RenderKeyMetrics == Render("metrics", render_key_metrics, "tab1")

Tab1 == Render("tab1", tab1, "tab2")

Tab2 == Render("tab2", tab2, "tab3")

Tab3 == Render("tab3", tab3, "tab4")

Tab4 == Render("tab4", tab4, "tab5")

Tab5 == Render("tab5", tab5, "tab6")

Tab6 == Render("tab6", tab6, "idle")

\* the three elements of the handler of main
ErrorElements ==
    {Elem("error", "Error loading dashboard", 0),
     Elem("hint", "Please ensure all data has been processed", 0),
     Elem("traceback", "See error details", 0)}

\* a handler that shows the message and raises again: the exception leaves
\* main and the script dies
HandlerReraising ==
    /\ pc = "except"
    /\ shown' = shown \cup {Elem("error", "Error loading dashboard", 0)}
    /\ escaped' = TRUE
    /\ pc' = "dead"
    /\ trigger' = "done"
    /\ prev_datasets' = EmptyRegistry
    /\ attempts' = <<>>
    /\ UNCHANGED <<dir_exists, dir, datasets, pending, loads, reads, grid, assessment>>

\* except Exception as e: st.error, st.info, st.expander with the traceback;
\* main returns
Handler ==
    /\ pc = "except"
    /\ shown' = shown \cup ErrorElements
    /\ escaped' = escaped
    /\ pc' = "idle"
    /\ trigger' = "done"
    /\ prev_datasets' = EmptyRegistry
    /\ attempts' = <<>>
    /\ UNCHANGED <<dir_exists, dir, datasets, pending, loads, reads, grid, assessment>>

\* a session over a directory that does not change
RenderInit ==
    /\ dir_exists \in BOOLEAN
    /\ dir \in RenderDirs
    /\ ~dir_exists => DOMAIN dir = {}
    /\ pc = "idle"
    /\ trigger = "none"
    /\ datasets = EmptyRegistry
    /\ pending = {}
    /\ attempts = <<>>
    /\ loads = 0
    /\ escaped = FALSE
    /\ prev_datasets = EmptyRegistry
    /\ shown = {}
    /\ reads = {}
    /\ grid = EmptyGrid
    /\ assessment = NoAssessment

RenderNext ==
    \/ Interact
    \/ Construct
    \/ LoadNcFile
    \/ LoadGeojsonFile
    \/ LoadCsvFile
    \/ EndNcLoop
    \/ EndGeojsonLoop
    \/ EndCsvLoop
    \/ RunRefresh
    \/ RunSidebar
    \/ RenderKeyMetrics
    \/ Tab1
    \/ Tab2
    \/ Tab3
    \/ Tab4
    \/ Tab5
    \/ Tab6
    \/ Handler

RenderSpec == RenderInit /\ [][RenderNext]_vars

\* the positions of a run from which only rendering code follows
Rendering == {"run", "metrics", "tab1", "tab2", "tab3", "tab4", "tab5", "tab6", "except"}

\* the elements with name el on the page
Shown(el) == {e \in shown : e.el = el}

\* ------------------------------------------------------------------------
\* C11
\* ------------------------------------------------------------------------

\* C11: once load_data has returned, no step of the rendering cycle
\* (render_header and render_sidebar, render_key_metrics, the chart and map
\* builders, the bodies of the six tabs, the handler of main) adds, removes
\* or replaces an entry of the registry.
C11_RenderingLeavesRegistry ==
    [][(pc \in Rendering) => (datasets' = datasets)]_vars

\* a run over a registry with entries has rendered all its steps, reading
\* entries on the way
C11_Witness ==
    /\ pc = "idle"
    /\ trigger = "done"
    /\ DOMAIN datasets # {}
    /\ reads = DOMAIN datasets
    /\ Shown("datasets_table") # {}
    /\ Shown("risk_card") # {}

\* the steps of run() that look into the registry, in their order
RenderOrder == <<"metrics", "tab1", "tab2", "tab3", "tab4", "tab5", "tab6">>

\* the run is over: main has returned
RunOver == pc = "idle" /\ trigger = "done"

\* the run is over and the handler of main has not acted in it
Completed == RunOver /\ shown \cap ErrorElements = {}

\* the number of steps of RenderOrder the current run has behind it
StepsDone ==
    IF Completed THEN Len(RenderOrder)
    ELSE IF \E i \in 1..Len(RenderOrder) : RenderOrder[i] = pc
      THEN (CHOOSE i \in 1..Len(RenderOrder) : RenderOrder[i] = pc) - 1
      ELSE 0

\* what each step of RenderOrder shows for a key it does not find
PlaceholdersOf ==
    <<{Elem("risk_metric", "Loading...", 0), Elem("habitat_metric", "N/A", 0),
       Elem("connectivity_metric", "N/A", 0), Elem("alert_card", "ALL CLEAR", 0)},
      {Elem("risk_info", "info", 0)},
      {Elem("connectivity_info", "info", 0), Elem("habitat_info", "info", 0)},
      {Elem("suspects_clear", "All Clear", 0)},
      {Elem("mpa_info", "info", 0)},
      {Elem("impact_info", "info", 0)},
      {Elem("no_data_warning", "No processed data found", 0)}>>

\* ------------------------------------------------------------------------
\* C12
\* ------------------------------------------------------------------------

\* C12: over an empty registry, as a missing directory gives it, every step
\* of the run finds its key absent, reads no value of the registry and shows
\* its placeholder, and the run never enters the handler of main.
C12_EmptyRegistryShowsPlaceholders ==
    (/\ datasets = EmptyRegistry
     /\ \/ \E i \in 1..Len(RenderOrder) : RenderOrder[i] = pc
        \/ pc = "except"
        \/ RunOver)
    => /\ reads = {}
       /\ pc # "except"
       /\ shown \cap ErrorElements = {}
       /\ \A i \in 1..StepsDone : PlaceholdersOf[i] \subseteq shown
       /\ \A e \in shown :
            \/ e \in {Elem("header", "MedGuard 2.0", 0), Elem("sidebar", "Control Panel", 0)}
            \/ \E i \in 1..StepsDone : e \in PlaceholdersOf[i]

\* the directory is missing and the run has shown all its placeholders
C12_Witness ==
    /\ ~dir_exists
    /\ datasets = EmptyRegistry
    /\ Completed
    /\ \A i \in 1..Len(RenderOrder) : PlaceholdersOf[i] \subseteq shown

\* the format in which the processing pipeline writes the dataset of a stem
FormatOf(stem) ==
    CASE stem \in {"overfishing_risk_index", "habitat_quality_index", "larval_connectivity"} ->
           "nc"
      [] stem = "recommended_mpa_locations" -> "geojson"
      [] OTHER -> "csv"

\* every file of the directory is readable and in the format of its stem
AsProcessed ==
    \A n \in DOMAIN dir : Ext(n) = FormatOf(Stem(n)) /\ dir[n].kind \in Readable

\* render_key_metrics has acted in the current run
MetricsDone == StepsDone >= 1 \/ pc = "except" \/ RunOver

\* ------------------------------------------------------------------------
\* C13
\* ------------------------------------------------------------------------

\* C13 as stated, for a directory as the pipeline writes it: whenever the
\* registry has the key overfishing_risk_index, render_key_metrics shows the card of its mean m with the class CRITICAL
\* when m > 0.6, WARNING when 0.3 < m <= 0.6 and SAFE otherwise; a grid of
\* 0.8 throughout is CRITICAL.
C13_Original ==
    (AsProcessed /\ MetricsDone /\ Present("overfishing_risk_index")) =>
       LET m == datasets["overfishing_risk_index"].agg
       IN  Shown("risk_card") =
             {Elem("risk_card",
                   IF m > 6 THEN "CRITICAL" ELSE IF m > 3 THEN "WARNING" ELSE "SAFE",
                   m)}

\* ------------------------------------------------------------------------
\* C14
\* ------------------------------------------------------------------------

\* C14 as stated, the displays for a directory as the pipeline writes it:
\* when illegal_fishing_suspects.csv is a table of n rows,
\* the entry of the registry has length n, the alert card of
\* render_key_metrics shows n and, once the third tab is rendered or the run
\* is over, so does its warning, for n = 0 too; the "0 / ALL CLEAR" card is
\* on the page only when the key is absent.
C14_Original ==
    LET key == "illegal_fishing_suspects"
        file == <<key, "csv">>
    IN  /\ (Loaded /\ file \in DOMAIN dir /\ dir[file].kind = "rows") =>
              (Present(key) /\ len(datasets[key]) = dir[file].agg)
        /\ (AsProcessed /\ MetricsDone /\ file \in DOMAIN dir) =>
              /\ Elem("alert_card", "VESSELS FLAGGED", dir[file].agg) \in shown
              /\ (StepsDone >= 4 \/ RunOver) =>
                    Elem("suspects_warning", "clusters detected", dir[file].agg) \in shown
        /\ (MetricsDone /\ Elem("alert_card", "ALL CLEAR", 0) \in shown) => ~Present(key)

\* ------------------------------------------------------------------------
\* C15
\* ------------------------------------------------------------------------

\* C15: an exception that leaves the constructor or run() is caught by the
\* handler of main, which shows the error message, the hint and the
\* expander with the traceback and returns; no exception leaves main, and
\* after a run has ended the next interaction can run the script again.
C15_HandlerCatches ==
    /\ [][(pc = "except") =>
            (pc' = "idle" /\ ~escaped' /\ ErrorElements \subseteq shown')]_vars
    /\ [](~escaped)
    /\ [](RunOver => ENABLED Interact)
    /\ []((RunOver /\ ~Completed) => ErrorElements \subseteq shown)

\* a step of run() has raised, the handler has shown its three elements and
\* main has returned
C15_Witness ==
    /\ RunOver
    /\ ErrorElements \subseteq shown
    /\ ~escaped
    /\ reads # {}

\* ------------------------------------------------------------------------
\* C16
\* ------------------------------------------------------------------------

\* what the code that finds key k present does with its value
Supports(k, value) ==
    CASE k \in {"overfishing_risk_index", "habitat_quality_index", "larval_connectivity"} ->
           IsArray(value)
      [] k = "recommended_mpa_locations" -> value.variant = "GeoDataFrame"
      [] OTHER -> IsTable(value)

\* C16 as stated, for the directories the pipeline writes: in every
\* registry load_data produces from one, each of the six keys
\* that is present holds a value of the variant its rendering code needs, so
\* that no run enters the handler of main because a key is present.
C16_Original ==
    (AsProcessed /\ MetricsDone) =>
       /\ \A k \in RenderStems \cap DOMAIN datasets : Supports(k, datasets[k])
       /\ pc # "except"
       /\ shown \cap ErrorElements = {}

\* ------------------------------------------------------------------------
\* The two classifications of one risk grid
\* ------------------------------------------------------------------------

\* a DataArray under overfishing_risk_index with any grid of the bounds,
\* about to be classified by render_key_metrics
ClassifyInit ==
    /\ grid \in Grids
    /\ assessment = NoAssessment
    /\ pc = "metrics"
    /\ shown = {}
    /\ reads = {}
    /\ dir_exists = TRUE
    /\ dir = [n \in {} |-> [kind |-> "text", agg |-> 0]]
    /\ trigger = "start"
    /\ datasets = EmptyRegistry
    /\ pending = {}
    /\ attempts = <<>>
    /\ loads = 1
    /\ escaped = FALSE
    /\ prev_datasets = EmptyRegistry

\* render_key_metrics, first column: mean_risk = float(risk_data.mean()) and
\* its class
HeadlineOfGrid ==
    /\ pc = "metrics"
    /\ assessment' =
         [assessment EXCEPT !.risk_class = risk_class(GridSum(grid), GridSize(grid))]
    /\ pc' = "tab1"
    /\ UNCHANGED <<dir_exists, dir, trigger, datasets, pending, attempts, loads,
                   escaped, prev_datasets, shown, reads, grid>>

\* run, first tab: low_pct, med_pct, high_pct and the status message
BreakdownOfGrid ==
    /\ pc = "tab1"
    /\ assessment' =
         [assessment EXCEPT !.low = CountLow(grid),
                            !.med = CountMed(grid),
                            !.high = CountHigh(grid),
                            !.size = GridSize(grid),
                            !.status = risk_status(CountHigh(grid), GridSize(grid))]
    /\ pc' = "idle"
    /\ UNCHANGED <<dir_exists, dir, trigger, datasets, pending, attempts, loads,
                   escaped, prev_datasets, shown, reads, grid>>

ClassifyNext ==
    \/ HeadlineOfGrid
    \/ BreakdownOfGrid

ClassifySpec == ClassifyInit /\ [][ClassifyNext]_vars

\* both classifications of the grid are made
Assessed == assessment.risk_class # "none" /\ assessment.status # "none"

\* the grid has n > 0 cells, all of value v
AllCells(v) == GridSize(grid) > 0 /\ grid = Uniform(v, GridSize(grid))

\* ------------------------------------------------------------------------
\* C17
\* ------------------------------------------------------------------------

\* the headline and the breakdown put the one value of a uniform grid in
\* corresponding classes
SameClass ==
    /\ assessment.risk_class = "CRITICAL" <=> assessment.high = assessment.size
    /\ assessment.risk_class = "WARNING" <=> assessment.med = assessment.size
    /\ assessment.risk_class = "SAFE" <=> assessment.low = assessment.size

\* C17 as stated: for every value v, 0.3 and 0.6 included, a grid whose
\* cells are all v (its mean is v) is CRITICAL in the headline exactly when
\* the breakdown counts v as High, WARNING exactly when Medium, SAFE exactly
\* when Low.
C17_Original ==
    Assessed => \A v \in CellValues : AllCells(v) => SameClass

\* ------------------------------------------------------------------------
\* C18
\* ------------------------------------------------------------------------

\* C18: for a grid with at least one cell the three counts of the breakdown
\* add up to the number of cells, so the three percentages add up to 100;
\* the one status message is the ALERT when more than 30 percent of the cells
\* are High, the WARNING when more than 15 and at most 30 percent are, and
\* the success message otherwise.
C18_BreakdownPartitions ==
    (assessment.status # "none" /\ assessment.size > 0) =>
       /\ assessment.low + assessment.med + assessment.high = assessment.size
       /\ assessment.low = grid[2]
       /\ assessment.med = grid[3] + grid[5]
       /\ assessment.high = grid[6] + grid[8]
       /\ assessment.status \in {"error", "warning", "success"}
       /\ assessment.status = "error" <=> assessment.high * 100 > 30 * assessment.size
       /\ assessment.status = "warning" <=>
             /\ assessment.high * 100 > 15 * assessment.size
             /\ assessment.high * 100 <= 30 * assessment.size
       /\ assessment.status = "success" <=> assessment.high * 100 <= 15 * assessment.size

\* exactly 30 percent of the cells are High, among them cells of 0.6, next
\* to Low and Medium cells, among them cells of 0.3: the WARNING is shown
C18_Witness ==
    /\ assessment.status = "warning"
    /\ assessment.high * 100 = 30 * assessment.size
    /\ grid[6] > 0 /\ grid[3] > 0 /\ grid[2] > 0

====
